---------------------------- MODULE Spec2Model ----------------------------
(***************************************************************************)
(* A model of the search / aggregation / retry / rate-limit layer of the   *)
(* Luba culture site: api-module.js (fetchWithRetry, rateLimitMusicBrainz, *)
(* the source adapters, searchAllSources) and search-module.js (debounce,  *)
(* performSearch, initializeSearchBar, clearSearch), data-management.js     *)
(* (localStorage, votes, theme), events-module.js (handleVoteClick,        *)
(* handleThemeToggle) and project.js (waitForRateLimit, initializeVoting). *)
(*                                                                         *)
(* JavaScript runs one task at a time, so every action below is one        *)
(* synchronous run of code between two suspension points (an await of a    *)
(* network response or of a timer).  Time is the value Date.now() returns, *)
(* in milliseconds; a timer fires when the clock reaches the delay that    *)
(* setTimeout was given.                                                   *)
(***************************************************************************)
EXTENDS Integers, Sequences, FiniteSets, TLC

(***************************************************************************)
(* Bounds of the model.                                                    *)
(***************************************************************************)
\* Date.now() when the page has loaded (any value of at least one second).
LoadTime == 1000
\* The clock stops here.
MaxTime == 2500
\* The largest retries argument given to fetchWithRetry.
MaxRetries == 4

\* The most items the Cleveland search returns.
MaxCleveland == 2
\* The most object IDs the Met search returns.
MaxMetIds == 11
\* The most items a MusicBrainz search returns.
MaxMusic == 1

\* The number of input events followed.
MaxEvents == 3

\* The number of days followed.
MaxDays == 13

\* The most objects a search of the gallery returns.
MaxGalleryItems == 13

\* The number of clicks on the Surprise Me button followed.
MaxClicks == 2

\* The number of artifacts a visitor can view.
MaxHistoryIds == 21

\* The amounts by which the clock advances in one step.
TickSteps == {300, 500}

(***************************************************************************)
(* Program constants.                                                      *)
(***************************************************************************)
MUSICBRAINZ_RATE_LIMIT == 1000
BACKOFF_STEP == 400
DEFAULT_RETRIES == 3
\* metIds.slice(0, 10)
MET_DETAIL_LIMIT == 10
DEFAULT_MAX_RESULTS == 50
DEBOUNCE_DELAY == 500
MIN_LENGTH == 2

VARIABLES
    now,                    \* Date.now()
    lastMusicBrainzRequest, \* api-module.js, module level
    rl,                     \* rateLimitMusicBrainz: the invocation of each call site
    admitLog,               \* history: the times at which rateLimitMusicBrainz returned
    fw,                     \* fetchWithRetry: one invocation
    ag,                     \* searchAllSources: one invocation and its adapters
    debounceTimer,          \* search-module.js, module level: the id setTimeout gave
    timers,                 \* the debounce timers that are pending
    currentSearchQuery,     \* search-module.js, module level
    searchResults,          \* search-module.js, module level
    searches,               \* the performSearch invocations, in call order
    container,              \* the results container
    statusElement,          \* the status element
    events,                 \* history: the input events, and whether the next one
                            \* came within the quiet period
    lastInputAt,            \* history: the time of the last input event
    lastRequestTime,        \* project.js, module level
    wl,                     \* waitForRateLimit: the invocation of each call site
    today,                  \* new Date(): the year and the days since 1 January
    localStorage,           \* window.localStorage: the item of each key
    dataTheme,              \* the data-theme attribute of the document element
    docLang,                \* the lang attribute of the document element
    lastCast,               \* history: the last castVote call
    wonKeys,                \* history: the week keys in which a castVote succeeded
    lastSelected,           \* history: the theme the user last switched to
    toggledSinceLoad,       \* history: a theme switch since the last page load
    vt,                     \* initializeVoting: one invocation and the voting section
    lastFav,                \* history: the last addFavorite or removeFavorite call
    lastHist,               \* history: the last addToHistory call
    currentSource,          \* gallery.js, module level: the type of the source
    state,                  \* gallery.js, module level: ids, cursor, loading, drcOnly
    grid,                   \* the cards of the gallery grid
    statusEl,               \* the gallery status element
    runs,                   \* the loadNextPage invocations that are past the guard
    lastExit,               \* history: how the last loadNextPage invocation ended
    loadMoreBtn,            \* the disabled property of the load-more button
    guarded,                \* history: the last event whose call returned at the guard
    listeners,              \* the click listeners of the Surprise Me button
    clicks,                 \* history: the clicks on the Surprise Me button
    surprises,              \* the surpriseMe invocations, in call order
    shown                   \* history: the modals and toasts shown, in order

limVars == <<lastMusicBrainzRequest, rl, admitLog>>
fetchVars == <<fw>>
aggVars == <<ag>>
searchVars == <<debounceTimer, timers, currentSearchQuery, searchResults, searches,
                container, statusElement, events, lastInputAt>>
projVars == <<lastRequestTime, wl>>
storeVars == <<today, localStorage, dataTheme, docLang, lastCast, wonKeys, lastSelected,
               toggledSinceLoad>>
votingVars == <<vt>>
collVars == <<lastFav, lastHist>>
galVars == <<currentSource, state, grid, statusEl, loadMoreBtn, runs, lastExit, guarded>>
surpVars == <<listeners, clicks, surprises, shown>>
restVars == <<collVars, galVars, surpVars>>
pageVars == <<projVars, storeVars, votingVars, restVars>>
vars == <<now, lastMusicBrainzRequest, rl, admitLog, fw, ag, debounceTimer, timers,
          currentSearchQuery, searchResults, searches, container, statusElement,
          events, lastInputAt, pageVars>>

None == "none"

Last(s) == s[Len(s)]

(***************************************************************************)
(* Timers.  Every pending setTimeout of the model, as the clock value at   *)
(* which it fires.                                                         *)
(***************************************************************************)
MusicAdapters == {"artists", "recordings", "instruments"}
MBCallers == MusicAdapters \cup {"details"}

\* prevAdmit when nothing has been admitted yet.
NoAdmission == 0 - 1

RlIdle == [pc |-> "idle", invokedAt |-> 0, prevAdmit |-> NoAdmission, delay |-> 0,
           wakeAt |-> 0, admittedAt |-> 0]

\* The functions of project.js that call fetchMusicBrainz.
ProjectCallers == {"searchLubaArtists", "searchLubaRecordings"}

WlIdle == [pc |-> "idle", invokedAt |-> 0, wakeAt |-> 0, admittedAt |-> 0]

FwIdle == [pc |-> "idle", retries |-> 0, i |-> 0, wakeAt |-> 0, log |-> <<>>,
           waits |-> <<>>, result |-> None, settledAt |-> 0]

PendingDeadlines ==
    {rl[c].wakeAt : c \in {d \in MBCallers : rl[d].pc = "waiting"}}
    \cup {wl[p].wakeAt : p \in {d \in ProjectCallers : wl[d].pc = "waiting"}}
    \cup (IF fw.pc = "backoff" THEN {fw.wakeAt} ELSE {})
    \cup {t.due : t \in timers}

SetMin(S) == CHOOSE x \in S : \A y \in S : x <= y

\* Time passes up to the next timer that is due.
TimerTick ==
    /\ PendingDeadlines # {}
    /\ \A t \in PendingDeadlines : now < t
    /\ now' = SetMin(PendingDeadlines)
    /\ UNCHANGED <<limVars, pageVars, fetchVars, aggVars, searchVars>>

\* Time passes, by one of the steps or up to the next timer that is due:
\* no timer is overrun.
Tick ==
    /\ now < MaxTime
    /\ \A t \in PendingDeadlines : now < t
    /\ \E d \in TickSteps :
        now' = SetMin({now + d, MaxTime} \cup PendingDeadlines)
    /\ UNCHANGED <<limVars, pageVars, fetchVars, aggVars, searchVars>>

(***************************************************************************)
(* rateLimitMusicBrainz                                                    *)
(***************************************************************************)
\* A delay that leaves the elapsed time out.
RateLimitDelayNoElapsed(since) == MUSICBRAINZ_RATE_LIMIT

\* The delay given to setTimeout, for timeSinceLastRequest = since.
RateLimitDelay(since) == MUSICBRAINZ_RATE_LIMIT - since

\* The synchronous part of one invocation: up to the await, or to the end.
RateLimitRun(c, l, r, a) ==
    LET timeSinceLastRequest == now - l
        before == IF a = <<>> THEN NoAdmission ELSE Last(a)
    IN IF timeSinceLastRequest < MUSICBRAINZ_RATE_LIMIT
       THEN <<l,
              [r EXCEPT ![c] = [pc |-> "waiting", invokedAt |-> now,
                                prevAdmit |-> before,
                                delay |-> RateLimitDelay(timeSinceLastRequest),
                                wakeAt |-> now + RateLimitDelay(timeSinceLastRequest),
                                admittedAt |-> 0]],
              a>>
       ELSE <<now,
              [r EXCEPT ![c] = [pc |-> "admitted", invokedAt |-> now,
                                prevAdmit |-> before, delay |-> 0,
                                wakeAt |-> 0, admittedAt |-> now]],
              Append(a, now)>>

\* The three adapters of the music branch of searchAllSources are called one
\* after the other in the same task, each running to its first await.
MusicBranchRun ==
    LET o1 == RateLimitRun("artists", lastMusicBrainzRequest, rl, admitLog)
        o2 == RateLimitRun("recordings", o1[1], o1[2], o1[3])
    IN RateLimitRun("instruments", o2[1], o2[2], o2[3])

\* One adapter calls rateLimitMusicBrainz.
RateLimitEnter(c) ==
    /\ rl[c].pc = "idle"
    /\ LET out == RateLimitRun(c, lastMusicBrainzRequest, rl, admitLog)
       IN /\ lastMusicBrainzRequest' = out[1]
          /\ rl' = out[2]
          /\ admitLog' = out[3]
    /\ UNCHANGED <<now, pageVars, fetchVars, aggVars, searchVars>>

\* The music branch of searchAllSources starts.
MusicBranchEnter ==
    /\ \A c \in MusicAdapters : rl[c].pc = "idle"
    /\ lastMusicBrainzRequest' = MusicBranchRun[1]
    /\ rl' = MusicBranchRun[2]
    /\ admitLog' = MusicBranchRun[3]
    /\ UNCHANGED <<now, pageVars, fetchVars, aggVars, searchVars>>

\* The timer of a suspended invocation fires: the code after the await.
RateLimitWake(c) ==
    /\ rl[c].pc = "waiting"
    /\ rl[c].wakeAt = now
    /\ lastMusicBrainzRequest' = now
    /\ rl' = [rl EXCEPT ![c].pc = "admitted", ![c].admittedAt = now]
    /\ admitLog' = Append(admitLog, now)
    /\ UNCHANGED <<now, pageVars, fetchVars, aggVars, searchVars>>

(***************************************************************************)
(* project.js: waitForRateLimit, called first by fetchMusicBrainz          *)
(***************************************************************************)
MIN_REQUEST_INTERVAL == 1000

\* const timeSinceLastRequest = now - lastRequestTime
WaitSince == now - lastRequestTime

\* fetchMusicBrainz calls waitForRateLimit: up to the await, or to the end.
WaitForRateLimitEnter(p) ==
    /\ wl[p].pc = "idle"
    /\ IF WaitSince < MIN_REQUEST_INTERVAL
       THEN /\ wl' = [wl EXCEPT ![p] = [pc |-> "waiting", invokedAt |-> now,
                                        wakeAt |-> now + (MIN_REQUEST_INTERVAL - WaitSince),
                                        admittedAt |-> 0]]
            /\ UNCHANGED lastRequestTime
       ELSE /\ wl' = [wl EXCEPT ![p] = [pc |-> "admitted", invokedAt |-> now,
                                        wakeAt |-> 0, admittedAt |-> now]]
            /\ lastRequestTime' = now
    /\ UNCHANGED <<now, limVars, fetchVars, aggVars, searchVars, restVars, storeVars, votingVars>>

\* The timer of a suspended invocation fires: lastRequestTime = Date.now().
WaitForRateLimitWake(p) ==
    /\ wl[p].pc = "waiting"
    /\ wl[p].wakeAt = now
    /\ lastRequestTime' = now
    /\ wl' = [wl EXCEPT ![p].pc = "admitted", ![p].admittedAt = now]
    /\ UNCHANGED <<now, limVars, fetchVars, aggVars, searchVars, restVars, storeVars, votingVars>>

InitProject ==
    /\ lastRequestTime = 0
    /\ wl = [p \in ProjectCallers |-> WlIdle]

(***************************************************************************)
(* data-management.js: localStorage, the votes of the week, the theme.     *)
(* An item of localStorage is a text: the JSON text of a value, or a text  *)
(* written as it is.                                                       *)
(***************************************************************************)
\* STORAGE_KEYS
VOTES == "luba_community_votes"
THEME == "luba_theme"
PREFERENCES == "luba_user_preferences"
StorageKeys == {VOTES, THEME, PREFERENCES, "luba_my_heritage", "luba_interaction_history"}

\* localStorage.getItem(key) === null
Absent == [present |-> FALSE, json |-> FALSE, value |-> "null"]

\* JSON.stringify(value)
JsonStringify(value) == [present |-> TRUE, json |-> TRUE, value |-> value]

\* A string stored without JSON.stringify: the words light and dark are not
\* JSON texts.
BareText(string) == [present |-> TRUE, json |-> FALSE, value |-> string]

\* JSON.parse(item) throws a SyntaxError.
ParseThrows(item) == ~item.json

\* getFromStorage(key, defaultValue)
GetFromStorage(ls, key, defaultValue) ==
    IF ~ls[key].present THEN defaultValue
    ELSE IF ParseThrows(ls[key]) THEN defaultValue
    ELSE ls[key].value

\* saveToStorage(key, value)
SaveToStorage(ls, key, value) == [ls EXCEPT ![key] = JsonStringify(value)]

\* gallery.js
PAGE_SIZE == 12
GALLERY_RETRIES == 2
GALLERY_WAIT_STEP == 400

\* addToHistory(type, item, maxItems = 20)
HISTORY_MAX_ITEMS == 20

DEFAULT_PREFERENCES == [language |-> "english", theme |-> "light"]

\* new Date(year, 0, 1).getDay() for the years of the model: 1 January 2025
\* is a Wednesday, and neither 2025 nor 2026 is a leap year.
FirstYear == 2025
JanFirstDay(year) == (3 + (year - FirstYear)) % 7
DaysInYear == 365

\* The day the page is first used: 20 December 2025.
FirstDay == [year |-> FirstYear, day |-> 353]

\* The days gone by since FirstDay.
DaysSince(date) == (date.year - FirstYear) * DaysInYear + date.day - FirstDay.day

\* Math.ceil(n / 7)
CeilDiv7(n) == (n + 6) \div 7

\* getCurrentWeekKey(): `${year}-W${weekNumber}`
GetCurrentWeekKey(date) ==
    LET days == date.day
        weekNumber == CeilDiv7(days + JanFirstDay(date.year) + 1)
    IN <<date.year, weekNumber>>

\* getVotes()
GetVotes(ls, date) ==
    GetFromStorage(ls, VOTES, [currentWeek |-> GetCurrentWeekKey(date), votes |-> {}])

\* hasVoted(itemId)
HasVoted(ls, date, itemId) ==
    LET voteData == GetVotes(ls, date)
    IN IF voteData.currentWeek # GetCurrentWeekKey(date) THEN FALSE
       ELSE \E v \in voteData.votes : v.itemId = itemId

\* itemData.name || itemData.title
NameOf(itemData) == IF itemData.name # "" THEN itemData.name ELSE itemData.title

\* voteData.votes[itemId] = {itemId, name, votedAt}
PutVote(votes, itemId, itemData, date) ==
    {v \in votes : v.itemId # itemId}
    \cup {[itemId |-> itemId, name |-> NameOf(itemData), votedAt |-> date]}

\* A test that looks for a vote for this item only.
AlreadyVotedForItem(votes, itemId) == \E v \in votes : v.itemId = itemId

\* Object.keys(voteData.votes).length > 0
AlreadyVoted(votes, itemId) == Cardinality(votes) > 0

Success == [success |-> TRUE, reason |-> "none"]
AlreadyVotedThisWeek == [success |-> FALSE, reason |-> "already_voted_this_week"]

\* castVote(itemId, itemData): what it returns and what it leaves stored.
CastVoteRun(ls, date, itemId, itemData) ==
    LET stored == GetVotes(ls, date)
        currentWeek == GetCurrentWeekKey(date)
        voteData == IF stored.currentWeek # currentWeek
                    THEN [currentWeek |-> currentWeek, votes |-> {}]
                    ELSE stored
    IN IF AlreadyVoted(voteData.votes, itemId)
       THEN [result |-> AlreadyVotedThisWeek, ls |-> ls]
       ELSE [result |-> Success,
             ls |-> SaveToStorage(ls, VOTES,
                        [voteData EXCEPT !.votes = PutVote(voteData.votes, itemId,
                                                           itemData, date)])]

Items == {"stool", "bowstand"}
ItemDatas == {[name |-> "", title |-> "Untitled"], [name |-> "Stool", title |-> "Untitled"]}

NoCast == [called |-> FALSE, week |-> <<0, 0>>, wonBefore |-> FALSE, result |-> Success,
           before |-> Absent, after |-> Absent]

\* What the history keeps of a castVote call.
CastRecord(out) ==
    [called |-> TRUE, week |-> GetCurrentWeekKey(today),
     wonBefore |-> GetCurrentWeekKey(today) \in wonKeys,
     result |-> out.result, before |-> localStorage[VOTES], after |-> out.ls[VOTES]]

\* castVote(itemId, itemData)
CastVote(itemId, itemData) ==
    /\ LET out == CastVoteRun(localStorage, today, itemId, itemData)
       IN /\ localStorage' = out.ls
          /\ lastCast' = CastRecord(out)
          /\ wonKeys' = IF out.result.success
                        THEN wonKeys \cup {GetCurrentWeekKey(today)} ELSE wonKeys
    /\ UNCHANGED <<now, limVars, fetchVars, aggVars, searchVars, restVars, projVars, votingVars, today, dataTheme,
                   docLang, lastSelected, toggledSinceLoad>>

\* handleVoteClick(event) on the vote button of an item.
HandleVoteClick(itemId, itemTitle) ==
    /\ ~HasVoted(localStorage, today, itemId)
    /\ CastVote(itemId, [name |-> itemTitle, title |-> ""])

\* Midnight.
DayPasses ==
    /\ DaysSince(today) < MaxDays
    /\ today' = IF today.day + 1 < DaysInYear
                THEN [today EXCEPT !.day = today.day + 1]
                ELSE [year |-> today.year + 1, day |-> 0]
    /\ UNCHANGED <<now, limVars, fetchVars, aggVars, searchVars, restVars, projVars, votingVars, localStorage,
                   dataTheme, docLang, lastCast, wonKeys, lastSelected, toggledSinceLoad>>

\* getAttribute('data-theme') of a document whose markup does not set it.
NoAttribute == "null"

\* document.documentElement.getAttribute('data-theme') || 'light'
CurrentTheme == IF dataTheme = NoAttribute THEN "light" ELSE dataTheme

\* localStorage.setItem('luba_theme', newTheme)
SetThemeItem(ls, newTheme) == [ls EXCEPT ![THEME] = BareText(newTheme)]

\* handleThemeToggle(event)
HandleThemeToggle ==
    /\ LET newTheme == IF CurrentTheme = "light" THEN "dark" ELSE "light"
       IN /\ dataTheme' = newTheme
          /\ localStorage' = SetThemeItem(localStorage, newTheme)
          /\ lastSelected' = newTheme
    /\ toggledSinceLoad' = TRUE
    /\ UNCHANGED <<now, limVars, fetchVars, aggVars, searchVars, restVars, projVars, votingVars, today, docLang,
                   lastCast, wonKeys>>

\* getTheme()
GetTheme(ls) == GetFromStorage(ls, THEME, "light")

\* getPreferences()
GetPreferences(ls) == GetFromStorage(ls, PREFERENCES, DEFAULT_PREFERENCES)

\* The page is loaded again: a new document, then initializeStorage():
\* applyTheme(getTheme()) and applyLanguage(preferences.language).
InitializeStorage ==
    /\ LET theme == GetTheme(localStorage)
       IN /\ dataTheme' = theme
          /\ localStorage' = SaveToStorage(localStorage, THEME, theme)
    /\ docLang' = IF GetPreferences(localStorage).language = "french" THEN "fr" ELSE "en"
    /\ toggledSinceLoad' = FALSE
    /\ UNCHANGED <<now, limVars, fetchVars, aggVars, searchVars, restVars, projVars, votingVars, today, lastCast,
                   wonKeys, lastSelected>>

\* getMyVote()
GetMyVote(ls, date) ==
    LET voteData == GetVotes(ls, date)
    IN IF voteData.currentWeek # GetCurrentWeekKey(date) THEN {}
       ELSE voteData.votes

InitStorage ==
    /\ today = FirstDay
    /\ localStorage = [k \in StorageKeys |-> Absent]
    /\ dataTheme = NoAttribute
    /\ docLang = "en"
    /\ lastCast = NoCast
    /\ wonKeys = {}
    /\ lastSelected = "none"
    /\ toggledSinceLoad = FALSE

(***************************************************************************)
(* fetchWithRetry                                                          *)
(***************************************************************************)
\* What one HTTP attempt can end in: a 2xx response with a JSON body, a
\* non-2xx response, a rejected fetch, a body that is not JSON.
AttemptOutcomes == {"ok", "status", "network", "parse"}

\* The retries argument: the default, and what a caller may pass.
RetriesArgs == (0 - 1) .. MaxRetries

Payload(k) == <<"payload", k>>
ErrorOf(kind, k) == <<"error", kind, k>>
Undefined == <<"undefined">>

\* A doubling backoff.
BackoffDelayExponential(i) == BACKOFF_STEP * (2 ^ i)

\* setTimeout(resolve, 400 * (i + 1))
BackoffDelay(i) == BACKOFF_STEP * (i + 1)

\* A test that lets the last failure through to the backoff.
IsLastAttemptOffByOne(i, retries) == i = retries

\* if (i === retries - 1) throw error
IsLastAttempt(i, retries) == i = retries - 1

\* for (let i = 0; i < retries; i++): the loop test, then the fetch of the body.
FetchLoopFrom(f, i) ==
    IF i < f.retries
    THEN [f EXCEPT !.pc = "fetching", !.i = i,
                   !.log = Append(f.log, [start |-> now, end |-> 0, outcome |-> None])]
    ELSE [f EXCEPT !.pc = "resolved", !.i = i, !.result = Undefined, !.settledAt = now]

FetchCall(retries) ==
    /\ fw.pc = "idle"
    /\ fw' = FetchLoopFrom([fw EXCEPT !.retries = retries], 0)
    /\ UNCHANGED <<now, pageVars, limVars, aggVars, searchVars>>

\* The attempt in flight ends.
FetchRespond(outcome) ==
    /\ fw.pc = "fetching"
    /\ LET n == Len(fw.log)
           f == [fw EXCEPT !.log[n].end = now, !.log[n].outcome = outcome]
       IN fw' = IF outcome = "ok"
                THEN [f EXCEPT !.pc = "resolved", !.result = Payload(n), !.settledAt = now]
                ELSE IF IsLastAttempt(fw.i, fw.retries)
                THEN [f EXCEPT !.pc = "rejected", !.result = ErrorOf(outcome, n),
                               !.settledAt = now]
                ELSE [f EXCEPT !.pc = "backoff", !.wakeAt = now + BackoffDelay(fw.i),
                               !.waits = Append(fw.waits, BackoffDelay(fw.i))]
    /\ UNCHANGED <<now, pageVars, limVars, aggVars, searchVars>>

\* The backoff timer fires: i++ and the next turn of the loop.
FetchBackoffDone ==
    /\ fw.pc = "backoff"
    /\ fw.wakeAt = now
    /\ fw' = FetchLoopFrom(fw, fw.i + 1)
    /\ UNCHANGED <<now, pageVars, limVars, aggVars, searchVars>>

(***************************************************************************)
(* The source adapters and searchAllSources                                *)
(***************************************************************************)
Min(a, b) == IF a <= b THEN a ELSE b

\* s.slice(0, n)
Take(s, n) == SubSeq(s, 1, Min(n, Len(s)))

\* The attempts an endpoint answers with, when asked often enough.
AttemptSeqs ==
    {<<"ok">>, <<"status", "ok">>, <<"network", "parse", "ok">>,
     <<"network", "status", "network">>, <<"status", "status", "status", "ok">>}

\* How fetchWithRetry(url) ends against an endpoint that answers seq.
RECURSIVE RetryResult(_, _, _)
RetryResult(seq, i, retries) ==
    IF i >= retries \/ i + 1 > Len(seq) THEN "undefined"
    ELSE IF seq[i + 1] = "ok" THEN "resolved"
    ELSE IF IsLastAttempt(i, retries) THEN "rejected"
    ELSE RetryResult(seq, i + 1, retries)

\* A JSON body: the array field the adapter reads, when it is there.
Body(items) == [present |-> TRUE, items |-> items]
NoField == [present |-> FALSE, items |-> <<>>]

\* data.field || []
OrEmpty(body) == IF body.present THEN body.items ELSE <<>>

MetId(j) == 500 + j
MetCounts == {0, 1, MaxMetIds - 1, MaxMetIds}
MetBodies == {NoField} \cup {Body([j \in 1..n |-> MetId(j)]) : n \in MetCounts}
ClevelandBodies ==
    {NoField} \cup {Body([k \in 1..n |-> <<"cleveland", k>>]) : n \in 0..MaxCleveland}
MusicBodies(c) ==
    {NoField} \cup {Body([k \in 1..n |-> <<c, k>>]) : n \in 0..MaxMusic}

\* What the detail fetches of getMetObjects end in, one per ID asked for: an
\* object with an image, an object without one, a rejected fetch.
DetailKinds == {"img", "noimg", "failed"}
KindChoices(asked) ==
    {[j \in 1..Len(asked) |-> IF j = 1 THEN first
                              ELSE IF j = Len(asked) THEN last ELSE "img"] :
        first \in DetailKinds, last \in DetailKinds}

\* Every ID, without the cut.
MetSliceAll(ids) == ids

\* metIds.slice(0, 10)
MetSlice(ids) == Take(ids, MET_DETAIL_LIMIT)

\* The fulfilled results, with or without a primaryImage.
GetMetObjectsNoImageTest(asked, kinds) ==
    LET idx == [j \in 1..Len(asked) |-> j]
        fulfilled == SelectSeq(idx, LAMBDA j : kinds[j] # "failed")
    IN [k \in 1..Len(fulfilled) |-> <<"met", asked[fulfilled[k]]>>]

\* getMetObjects: the fulfilled results, then those with a primaryImage.
GetMetObjects(asked, kinds) ==
    LET idx == [j \in 1..Len(asked) |-> j]
        fulfilled == SelectSeq(idx, LAMBDA j : kinds[j] # "failed")
        withImage == SelectSeq(fulfilled, LAMBDA j : kinds[j] = "img")
    IN [k \in 1..Len(withImage) |-> <<"met", asked[withImage[k]]>>]

\* [...clevelandData, ...metObjects].slice(0, maxResults)
MergeArtifacts(clevelandData, metObjects, maxResults) ==
    Take(clevelandData \o metObjects, maxResults)

EmptyResults == [artifacts |-> <<>>, recordings |-> <<>>, artists |-> <<>>,
                 instruments |-> <<>>]

AgIdle == [pc |-> "idle", includeArt |-> FALSE, includeMusic |-> FALSE,
           maxResults |-> 0, results |-> EmptyResults, outcome |-> "none",
           met |-> [st |-> "none", ids |-> <<>>],
           cle |-> [st |-> "none", data |-> <<>>],
           det |-> [st |-> "none", asked |-> <<>>, kinds |-> <<>>, objects |-> <<>>],
           mb |-> [c \in MusicAdapters |-> [st |-> "none", data |-> <<>>]]]

MaxResultsArgs == {1, 5, DEFAULT_MAX_RESULTS}

\* catch (error) { console.error("Art search failed:", error); }
ArtCatch(a) == a

\* A promise that is never settled.
ReturnMissing(a) == a

\* return results
Return(a) == [a EXCEPT !.pc = "done", !.outcome = "returned"]

\* A handler that starts the results over.
MusicCatchReset(a) == [a EXCEPT !.results = EmptyResults]

\* catch (error) { console.error("Music search failed:", error); }
MusicCatch(a) == a

\* From the end of the art branch: the music branch up to its await, or the
\* return.
ContinueAfterArt(a) ==
    IF a.includeMusic
    THEN /\ ag' = [a EXCEPT !.pc = "music",
                            !.mb = [c \in MusicAdapters |-> [st |-> "pending", data |-> <<>>]]]
         /\ lastMusicBrainzRequest' = MusicBranchRun[1]
         /\ rl' = MusicBranchRun[2]
         /\ admitLog' = MusicBranchRun[3]
    ELSE /\ ag' = Return(a)
         /\ UNCHANGED limVars

\* A music branch started in the same run as the art branch.
MusicStartsAtCallAlways(includeArt, includeMusic) == includeMusic

\* The music branch is reached in the first run of the invocation only when
\* there is no art branch: the awaits of the art branch come before
\* if (includeMusic).
MusicStartsAtCall(includeArt, includeMusic) == includeMusic /\ ~includeArt

\* searchAllSources(query, {includeArt, includeMusic, maxResults}), up to its
\* first await.
SearchAllSources(includeArt, includeMusic, maxResults) ==
    /\ ag.pc = "idle"
    /\ \A c \in MusicAdapters : rl[c].pc = "idle"
    /\ LET a == [ag EXCEPT !.includeArt = includeArt, !.includeMusic = includeMusic,
                           !.maxResults = maxResults]
           art == [a EXCEPT !.pc = "artSearch", !.met.st = "pending",
                            !.cle.st = "pending"]
       IN IF includeArt /\ ~MusicStartsAtCall(includeArt, includeMusic)
          THEN /\ ag' = art
               /\ UNCHANGED limVars
          ELSE ContinueAfterArt(IF includeArt THEN art ELSE a)
    /\ UNCHANGED <<now, pageVars, fetchVars, searchVars>>

\* Both searches of the art branch are in: getMetObjects(metIds.slice(0, 10)).
CallGetMetObjects(a) ==
    [a EXCEPT !.pc = "metObjects", !.det.st = "pending",
              !.det.asked = MetSlice(a.met.ids)]

\* searchMetArtifacts settles.
MetSearchRespond(seq, body) ==
    /\ ag.met.st = "pending"
    /\ IF RetryResult(seq, 0, DEFAULT_RETRIES) = "resolved"
       THEN LET a == [ag EXCEPT !.met = [st |-> "ok", ids |-> OrEmpty(body)]]
            IN /\ ag' = IF ag.pc = "artSearch" /\ ag.cle.st = "ok"
                        THEN CallGetMetObjects(a) ELSE a
               /\ UNCHANGED limVars
       ELSE LET a == [ag EXCEPT !.met.st = "failed"]
            IN IF ag.pc = "artSearch"
               THEN ContinueAfterArt(ArtCatch(a))
               ELSE /\ ag' = a
                    /\ UNCHANGED limVars
    /\ UNCHANGED <<now, pageVars, fetchVars, searchVars>>

\* searchClevelandArtifacts settles.
ClevelandRespond(seq, body) ==
    /\ ag.cle.st = "pending"
    /\ IF RetryResult(seq, 0, DEFAULT_RETRIES) = "resolved"
       THEN LET a == [ag EXCEPT !.cle = [st |-> "ok", data |-> OrEmpty(body)]]
            IN /\ ag' = IF ag.pc = "artSearch" /\ ag.met.st = "ok"
                        THEN CallGetMetObjects(a) ELSE a
               /\ UNCHANGED limVars
       ELSE LET a == [ag EXCEPT !.cle.st = "failed"]
            IN IF ag.pc = "artSearch"
               THEN ContinueAfterArt(ArtCatch(a))
               ELSE /\ ag' = a
                    /\ UNCHANGED limVars
    /\ UNCHANGED <<now, pageVars, fetchVars, searchVars>>

\* Promise.allSettled of the detail fetches settles: the rest of the art
\* branch.
DetailsSettle(kinds) ==
    /\ ag.pc = "metObjects"
    /\ LET metObjects == GetMetObjects(ag.det.asked, kinds)
           a == [ag EXCEPT !.det.st = "settled", !.det.kinds = kinds,
                           !.det.objects = metObjects,
                           !.results.artifacts =
                               MergeArtifacts(ag.cle.data, metObjects, ag.maxResults)]
       IN ContinueAfterArt(a)
    /\ UNCHANGED <<now, pageVars, fetchVars, searchVars>>

\* results.artists = ...; results.recordings = ...; results.instruments = ...
AssignMusic(a) ==
    [a EXCEPT !.results.artists = a.mb["artists"].data,
              !.results.recordings = a.mb["recordings"].data,
              !.results.instruments = a.mb["instruments"].data]

\* A MusicBrainz adapter that has passed the limiter settles.
MusicRespond(c, seq, body) ==
    /\ ag.mb[c].st = "pending"
    /\ rl[c].pc = "admitted"
    /\ IF RetryResult(seq, 0, DEFAULT_RETRIES) = "resolved"
       THEN LET a == [ag EXCEPT !.mb[c] = [st |-> "ok", data |-> OrEmpty(body)]]
            IN ag' = IF ag.pc = "music" /\ \A d \in MusicAdapters : a.mb[d].st = "ok"
                     THEN Return(AssignMusic(a)) ELSE a
       ELSE LET a == [ag EXCEPT !.mb[c].st = "failed"]
            IN ag' = IF ag.pc = "music" THEN Return(MusicCatch(a)) ELSE a
    /\ UNCHANGED <<now, pageVars, limVars, fetchVars, searchVars>>

InitAgg == ag = AgIdle

(***************************************************************************)
(* search-module.js: debounce, performSearch, initializeSearchBar,         *)
(* clearSearch.  A text is a sequence of characters.  What a completed     *)
(* search shows is named by the invocation it comes from.                  *)
(***************************************************************************)
\* What the user may have in the input.
RawTexts == {<<" ", "a", " ">>, <<"a", "b">>, <<"b", "a">>, <<"a", "b", " ">>}

\* String.prototype.trim
RECURSIVE Trim(_)
Trim(s) ==
    IF s = <<>> THEN s
    ELSE IF s[1] = " " THEN Trim(Tail(s))
    ELSE IF s[Len(s)] = " " THEN Trim(SubSeq(s, 1, Len(s) - 1))
    ELSE s

NoResults == 0

Blank == [kind |-> "blank", by |-> 0]

\* The pending timer left in place.
ClearTimeoutForgotten(id) == timers

\* clearTimeout(debounceTimer)
ClearTimeout(id) == {t \in timers : t.id # id}

\* The id of the new timer not kept.
StoreTimerIdDropped(id) == debounceTimer

\* debounceTimer = setTimeout(...)
StoreTimerId(id) == id

\* The input listener of initializeSearchBar: e.target.value.trim(), then
\* debouncedSearch: clearTimeout and setTimeout.
InputEvent(value) ==
    /\ Len(events) < MaxEvents
    /\ LET query == Trim(value)
           id == Len(events) + 1
       IN /\ timers' = ClearTimeout(debounceTimer)
                       \cup {[id |-> id, due |-> now + DEBOUNCE_DELAY, query |-> query]}
          /\ debounceTimer' = StoreTimerId(id)
          /\ events' = Append([k \in 1..Len(events) |->
                                   IF k = Len(events) /\ now - lastInputAt < DEBOUNCE_DELAY
                                   THEN [events[k] EXCEPT !.superseded = TRUE]
                                   ELSE events[k]],
                               [q |-> query, superseded |-> FALSE])
          /\ lastInputAt' = now
    /\ UNCHANGED <<now, pageVars, limVars, fetchVars, aggVars, currentSearchQuery, searchResults,
                   searches, container, statusElement>>

\* A test that lets one-character queries through.
TooShortOffByOne(query) == Len(Trim(query)) < MIN_LENGTH - 1

\* if (query.trim().length < minLength)
TooShort(query) == Len(Trim(query)) < MIN_LENGTH

\* No staleness test.
IsStaleNever(query) == FALSE

\* if (currentSearchQuery !== query) return
IsStale(query) == currentSearchQuery # query

\* performSearch(query, options) up to its return or its await; ev is the
\* input event the call comes from.
PerformSearch(query, ev) ==
    /\ LET id == Len(searches) + 1
       IN IF TooShort(query)
          THEN /\ statusElement' = [kind |-> "typeAtLeast", by |-> id]
               /\ container' = [kind |-> "empty", by |-> id]
               /\ searches' = Append(searches, [query |-> query, ev |-> ev, st |-> "short"])
               /\ UNCHANGED currentSearchQuery
          ELSE /\ currentSearchQuery' = query
               /\ statusElement' = [kind |-> "searching", by |-> id]
               /\ container' = [kind |-> "skeleton", by |-> id]
               /\ searches' = Append(searches, [query |-> query, ev |-> ev, st |-> "inflight"])

\* A debounce timer fires: func.apply(this, args).
DebounceFire ==
    /\ \E t \in timers :
        /\ t.due = now
        /\ timers' = timers \ {t}
        /\ PerformSearch(t.query, t.id)
    /\ UNCHANGED <<now, pageVars, limVars, fetchVars, aggVars, debounceTimer, searchResults, events, lastInputAt>>

\* What the awaited searchAllSources gave and what showing it does: results
\* with items, results without, results whose rendering throws.
Completions == {"items", "empty", "renderThrows"}

\* searchAllSources of invocation id resolves: the rest of performSearch.
SearchComplete(id, completion) ==
    /\ id \in 1..Len(searches)
    /\ searches[id].st = "inflight"
    /\ searchResults' = id
    /\ IF IsStale(searches[id].query)
       THEN /\ searches' = [searches EXCEPT ![id].st = "discarded"]
            /\ UNCHANGED <<container, statusElement>>
       ELSE IF completion = "renderThrows"
       THEN /\ searches' = [searches EXCEPT ![id].st = "failed"]
            /\ statusElement' = [kind |-> "failed", by |-> id]
            /\ container' = [kind |-> "error", by |-> id]
       ELSE /\ searches' = [searches EXCEPT ![id].st = "rendered"]
            /\ statusElement' = [kind |-> IF completion = "items" THEN "found" ELSE "notFound",
                                 by |-> id]
            /\ container' = [kind |-> IF completion = "items" THEN "cards" ELSE "emptyState",
                             by |-> id]
    /\ UNCHANGED <<now, pageVars, limVars, fetchVars, aggVars, debounceTimer, timers,
                   currentSearchQuery, events, lastInputAt>>

\* clearSearch()
ClearSearch ==
    /\ currentSearchQuery' = <<>>
    /\ searchResults' = NoResults
    /\ timers' = ClearTimeout(debounceTimer)
    /\ UNCHANGED <<now, pageVars, limVars, fetchVars, aggVars, debounceTimer, searches, container,
                   statusElement, events, lastInputAt>>

\* The click listener of the clear button.
ClearClick ==
    /\ container' = [kind |-> "empty", by |-> 0]
    /\ statusElement' = Blank
    /\ UNCHANGED <<now, pageVars, limVars, fetchVars, aggVars, debounceTimer, timers,
                   currentSearchQuery, searchResults, searches, events, lastInputAt>>

InitSearch ==
    /\ debounceTimer = 0
    /\ timers = {}
    /\ currentSearchQuery = <<>>
    /\ searchResults = NoResults
    /\ searches = <<>>
    /\ container = [kind |-> "empty", by |-> 0]
    /\ statusElement = Blank
    /\ events = <<>>
    /\ lastInputAt = 0

(***************************************************************************)
(* project.js: initializeVoting                                            *)
(***************************************************************************)
VOTING_CARDS == 5

VtIdle == [pc |-> "idle", outcome |-> "none", cle |-> "none", met |-> "none",
           ids |-> <<>>, asked |-> <<>>, kinds |-> <<>>, source |-> "none",
           cards |-> <<>>, status |-> "none"]

\* shuffleArray(array): of the orders Math.random can give, the one that is
\* not the order of the array.
Reverse(s) == [k \in 1..Len(s) |-> s[Len(s) + 1 - k]]

\* renderVotingCards(artifacts, votingGrid, source): the id of each card.
RenderVotingCards(v, artifacts, source) ==
    [v EXCEPT !.source = source, !.cards = [k \in 1..Len(artifacts) |-> artifacts[k][2]]]

\* const myVote = getMyVote(); if (myVote) statusEl.textContent = ...
ShowMyVote(v) ==
    LET myVote == GetMyVote(localStorage, today)
    IN [v EXCEPT !.pc = "done", !.outcome = "rendered",
                 !.status = IF myVote = {} THEN "none"
                            ELSE (CHOOSE m \in myVote : TRUE).name]

\* catch (error) { console.error('Failed to initialize voting:', error); }
VotingCatch(v) == [v EXCEPT !.pc = "done", !.outcome = "caught"]

\* initializeVoting(), up to the await of searchClevelandArtifacts('Luba', 50).
InitializeVoting(gridPresent) ==
    /\ vt.pc = "idle"
    /\ vt' = IF ~gridPresent
             THEN [vt EXCEPT !.pc = "done", !.outcome = "noGrid"]
             ELSE [vt EXCEPT !.pc = "cleveland", !.cle = "pending"]
    /\ UNCHANGED <<now, limVars, fetchVars, aggVars, searchVars, restVars, projVars, storeVars>>

\* if (!artifacts || artifacts.length === 0)
ClevelandGaveNothing(st, artifacts) == st = "resolved" /\ Len(artifacts) = 0

\* searchClevelandArtifacts settles.
VotingClevelandRespond(seq, body, order) ==
    /\ vt.pc = "cleveland"
    /\ LET st == RetryResult(seq, 0, DEFAULT_RETRIES)
           artifacts == OrEmpty(body)
           v == [vt EXCEPT !.cle = IF st = "resolved" THEN "ok" ELSE "failed"]
       IN vt' = IF ClevelandGaveNothing(st, artifacts)
                THEN [v EXCEPT !.pc = "metSearch", !.met = "pending"]
                ELSE IF st # "resolved" THEN VotingCatch(v)
                ELSE LET shuffled == IF order = "kept" THEN artifacts ELSE Reverse(artifacts)
                     IN ShowMyVote(RenderVotingCards(v, Take(shuffled, VOTING_CARDS),
                                                     "cleveland"))
    /\ UNCHANGED <<now, limVars, fetchVars, aggVars, searchVars, restVars, projVars, storeVars>>

\* searchMetArtifacts('Luba', true) settles.
VotingMetSearchRespond(seq, body, order) ==
    /\ vt.pc = "metSearch"
    /\ LET st == RetryResult(seq, 0, DEFAULT_RETRIES)
           artifactIds == OrEmpty(body)
           shuffled == IF order = "kept" THEN artifactIds ELSE Reverse(artifactIds)
       IN vt' = IF st # "resolved" THEN VotingCatch([vt EXCEPT !.met = "failed"])
                ELSE IF Len(artifactIds) = 0
                THEN [vt EXCEPT !.met = "ok", !.pc = "done", !.outcome = "returned"]
                ELSE [vt EXCEPT !.met = "ok", !.ids = artifactIds, !.pc = "metObjects",
                                !.asked = Take(shuffled, VOTING_CARDS)]
    /\ UNCHANGED <<now, limVars, fetchVars, aggVars, searchVars, restVars, projVars, storeVars>>

\* getMetObjects(randomIds) settles.
VotingDetailsSettle(kinds) ==
    /\ vt.pc = "metObjects"
    /\ vt' = ShowMyVote(RenderVotingCards([vt EXCEPT !.kinds = kinds],
                                          GetMetObjects(vt.asked, kinds), "met"))
    /\ UNCHANGED <<now, limVars, fetchVars, aggVars, searchVars, restVars, projVars, storeVars>>

Orders == {"kept", "reversed"}

\* Every way the detail fetches of the voting section can end.
AllKindChoices(asked) == [1..Len(asked) -> DetailKinds]

InitVoting == vt = VtIdle

(***************************************************************************)
(* Favorites and history of data-management.js.  Both are objects of lists *)
(* kept in localStorage, one list for each type.  A property an item does  *)
(* not have is "undefined".                                                *)
(***************************************************************************)
\* getFavorites(), of STORAGE_KEYS.FAVORITES
GetFavorites(ls) ==
    GetFromStorage(ls, "luba_my_heritage",
                   [t \in {"artifacts", "recordings", "artists", "narratives"} |-> <<>>])

\* The test of addFavorite left out.
ExistsNever(list, id) == FALSE

\* const exists = favorites[type].some(fav => fav.id === item.id)
Exists(list, id) == \E k \in 1..Len(list) : list[k].id = id

\* addFavorite(type, item).  The entry is { id, name: item.name || item.title
\* || 'Untitled', dateAdded, ...item }: the properties of the item come last
\* and win.
AddFavorite(type, item) ==
    /\ LET favorites == GetFavorites(localStorage)
           list == IF type \in DOMAIN favorites THEN favorites[type] ELSE <<>>
           name == IF item.name # "undefined" THEN item.name
                   ELSE IF item.title \in {"undefined", ""} THEN "Untitled"
                   ELSE item.title
           entry == [id |-> item.id, name |-> name, title |-> item.title,
                     dateAdded |-> today]
           pushed == [t \in DOMAIN favorites \cup {type} |->
                         IF t = type THEN Append(list, entry) ELSE favorites[t]]
           exists == Exists(list, item.id)
       IN /\ localStorage' = IF exists THEN localStorage
                             ELSE SaveToStorage(localStorage, "luba_my_heritage", pushed)
          /\ lastFav' = [op |-> "add", type |-> type, id |-> item.id,
                         returned |-> ~exists, before |-> localStorage["luba_my_heritage"]]
    /\ UNCHANGED <<now, limVars, fetchVars, aggVars, searchVars, projVars, votingVars,
                   today, dataTheme, docLang, lastCast, wonKeys, lastSelected,
                   toggledSinceLoad, lastHist, galVars, surpVars>>

\* removeFavorite(type, itemId)
RemoveFavorite(type, itemId) ==
    /\ LET favorites == GetFavorites(localStorage)
           filtered == [favorites EXCEPT
                           ![type] = SelectSeq(@, LAMBDA fav : fav.id # itemId)]
           found == type \in DOMAIN favorites
       IN /\ localStorage' = IF found
                             THEN SaveToStorage(localStorage, "luba_my_heritage", filtered)
                             ELSE localStorage
          /\ lastFav' = [op |-> "remove", type |-> type, id |-> itemId,
                         returned |-> found, before |-> localStorage["luba_my_heritage"]]
    /\ UNCHANGED <<now, limVars, fetchVars, aggVars, searchVars, projVars, votingVars,
                   today, dataTheme, docLang, lastCast, wonKeys, lastSelected,
                   toggledSinceLoad, lastHist, galVars, surpVars>>

\* isFavorite(type, itemId)
IsFavorite(ls, type, itemId) ==
    LET favorites == GetFavorites(ls)
    IN IF type \in DOMAIN favorites
       THEN \E k \in 1..Len(favorites[type]) : favorites[type][k].id = itemId
       ELSE FALSE

\* addFavorite and removeFavorite as handleFavoriteClick and the cards call
\* them.  An id is a number or, read from a data attribute, the string of
\* its digits: === tells them apart.  Two of the items are one object under
\* two names.  getFavorites() has no list for the second type.
NextFavorites ==
    LET number(n) == [type |-> "number", v |-> n]
        string(n) == [type |-> "string", v |-> n]
        ids == {number(7), string(7), number(8)}
        items == {[id |-> number(7), name |-> "Stool", title |-> "undefined"],
                  [id |-> number(7), name |-> "", title |-> "Royal Stool"],
                  [id |-> string(7), name |-> "undefined", title |-> "Bowl"],
                  [id |-> number(8), name |-> "undefined", title |-> "undefined"]}
        types == {"artifacts", "instruments"}
    IN \/ \E t \in types, item \in items : AddFavorite(t, item)
       \/ \E t \in types, id \in ids : RemoveFavorite(t, id)

\* getHistory(), of STORAGE_KEYS.HISTORY
GetHistory(ls) ==
    GetFromStorage(ls, "luba_interaction_history",
                   [t \in {"artifacts", "recordings", "searches"} |-> <<>>])

\* A slice that keeps one entry more.
SliceOneMore(list, maxItems) == Take(list, maxItems + 1)

\* history[type].slice(0, maxItems)
Slice(list, maxItems) == Take(list, maxItems)

\* addToHistory(type, item, maxItems): the history it saves and returns.
\* The entry is { id, name: item.name || item.title || 'Untitled', viewedAt,
\* thumbnail: item.thumbnail || item.image || null }.
AddToHistoryRun(ls, date, type, item, maxItems) ==
    LET history == GetHistory(ls)
        list == IF type \in DOMAIN history THEN history[type] ELSE <<>>
        or(a, b) == IF a \in {"undefined", ""} THEN b ELSE a
        entry == [id |-> item.id,
                  name |-> or(item.name, or(item.title, "Untitled")),
                  viewedAt |-> date,
                  thumbnail |-> or(item.thumbnail, or(item.image, "null"))]
        filtered == SelectSeq(list, LAMBDA h : h.id # item.id)
        unshifted == <<entry>> \o filtered
    IN [t \in DOMAIN history \cup {type} |->
           IF t = type THEN Slice(unshifted, maxItems) ELSE history[t]]

\* addToHistory(type, item, maxItems)
AddToHistory(type, item, maxItems) ==
    /\ localStorage' = SaveToStorage(localStorage, "luba_interaction_history",
                                     AddToHistoryRun(localStorage, today, type, item,
                                                     maxItems))
    /\ lastHist' = [called |-> TRUE, type |-> type, id |-> item.id]
    /\ UNCHANGED <<now, limVars, fetchVars, aggVars, searchVars, projVars, votingVars,
                   today, dataTheme, docLang, lastCast, wonKeys, lastSelected,
                   toggledSinceLoad, lastFav, galVars, surpVars>>

\* addToHistory with the default maxItems and an item { id, title, image },
\* as surpriseMe and handleDetailsClick call it.  Of the artifacts a visitor views
\* the next one not in the list, or the one viewed last once more; under a
\* type getHistory() has no list for, three items in any order.
NextHistory ==
    LET item(id) == [id |-> id, name |-> "undefined", title |-> "Stool",
                     thumbnail |-> "undefined",
                     image |-> IF id % 2 = 0 THEN "web.jpg" ELSE "undefined"]
        list == GetHistory(localStorage)["artifacts"]
        seen == {list[k].id : k \in 1..Len(list)}
        unseen == (1..MaxHistoryIds) \ seen
        views == (IF unseen = {} THEN {} ELSE {SetMin(unseen)})
                 \cup (IF Len(list) = 0 THEN {} ELSE {list[1].id})
    IN \/ \E id \in views : AddToHistory("artifacts", item(id), HISTORY_MAX_ITEMS)
       \/ \E id \in {101, 102, 103} :
             AddToHistory("artists", item(id), HISTORY_MAX_ITEMS)

(***************************************************************************)
(* gallery.js: the gallery page.  loadNextPage is followed from await to   *)
(* await; the retries of fetchJson wait on a timer of their own.  An       *)
(* object of a museum is what the gallery reads of it: an image, the word  *)
(* Luba, a place in the Congo, any place at all.                           *)
(***************************************************************************)
\* matchesFilter(artifact), with state.drcOnly as it is at the call
MatchesFilter(artifact, drcOnly) ==
    IF ~drcOnly THEN TRUE
    ELSE IF ~artifact.luba THEN FALSE
    ELSE artifact.drc \/ ~artifact.geo

\* A fallback from either source.
ShouldFallbackAlways(source) == TRUE

\* if (currentSource.type === "cleveland"), in the catch of fetchIds
ShouldFallback(source) == source = "cleveland"

\* A guard that lets every call pass.
GuardedNever(loading) == FALSE

\* if (state.loading) return;
Guarded(loading) == loading

\* The gallery as one loadNextPage invocation sees and leaves it.
Gallery(run) ==
    [source |-> currentSource, state |-> state, grid |-> grid, status |-> statusEl,
     disabled |-> loadMoreBtn, run |-> run, exit |-> "none"]

\* The while loop of loadNextPage, up to its next await, and what follows
\* the loop.  A match keeps the filter value it was selected under.
RECURSIVE PageLoop(_)
PageLoop(g) ==
    LET slice == SubSeq(g.state.ids, g.state.cursor + 1,
                        Min(g.state.cursor + PAGE_SIZE, Len(g.state.ids)))
        moved == [g EXCEPT !.state.cursor = @ + PAGE_SIZE]
        \* slice.filter(artifact => hasImage && passesFilter)
        filtered == SelectSeq(slice, LAMBDA a : a.truthy /\ a.image
                                                /\ MatchesFilter(a, g.state.drcOnly))
        matches == [k \in 1..Len(filtered) |->
                       [artifact |-> filtered[k], under |-> g.state.drcOnly]]
        \* updateButtons()
        done(x, exit) == [x EXCEPT !.disabled = x.state.cursor >= Len(x.state.ids),
                                   !.exit = exit]
        \* renderArtifacts(artifacts): a card for each artifact with an image
        cards == SelectSeq(g.run.artifacts, LAMBDA m : m.artifact.truthy /\ m.artifact.image)
    IN IF Len(g.run.artifacts) < PAGE_SIZE /\ g.state.cursor < Len(g.state.ids)
       THEN IF g.source = "cleveland"
            THEN PageLoop([moved EXCEPT !.run.artifacts = @ \o matches])
            ELSE [moved EXCEPT !.run.pc = "details", !.run.slice = slice]
       ELSE IF Len(g.run.artifacts) = 0 /\ Len(g.grid) = 0
       THEN done([g EXCEPT !.status = "noneFound"], "nomatch")
       ELSE IF Len(g.run.artifacts) = 0
       THEN done([g EXCEPT !.status = "noMore"], "nomore")
       ELSE done([g EXCEPT !.grid = @ \o cards, !.status = "showing"], "rendered")

\* The variables after a step of an invocation: finally { state.loading = false }
\* once it has ended.
Leave(r, g) ==
    /\ currentSource' = g.source
    /\ grid' = g.grid
    /\ statusEl' = g.status
    /\ loadMoreBtn' = g.disabled
    /\ IF g.exit = "none"
       THEN /\ state' = g.state
            /\ runs' = IF r > Len(runs) THEN Append(runs, g.run) ELSE [runs EXCEPT ![r] = g.run]
            /\ lastExit' = lastExit
       ELSE /\ state' = [g.state EXCEPT !.loading = FALSE]
            /\ runs' = SubSeq(runs, 1, r - 1) \o SubSeq(runs, r + 1, Len(runs))
            /\ lastExit' = [kind |-> g.exit,
                            failed |-> [k \in 1..Len(g.run.failed) |-> g.run.failed[k].source],
                            requests |-> IF g.exit = "error" THEN Last(g.run.failed).requests
                                         ELSE 0,
                            cause |-> IF g.exit = "error" THEN Last(g.run.failed).cause
                                      ELSE "none",
                            status |-> g.status]

\* loadNextPage({ reset }), up to its first await or its end, called by the
\* listener of an event; the listener of the filter sets state.drcOnly first.
LoadNextPage(reset, event, drcOnly) ==
    LET toggledState == [state EXCEPT !.drcOnly = drcOnly]
        run == [pc |-> "start", reset |-> reset, attempt |-> 0, waits |-> <<>>,
                tried |-> <<>>, failed |-> <<>>, slice |-> <<>>, artifacts |-> <<>>]
        g == [Gallery(run) EXCEPT !.state = [toggledState EXCEPT !.loading = TRUE]]
        \* fetchIds(), up to the await of fetchJson(currentSource.search)
        fetchIds == [g EXCEPT !.status = "loading", !.run.pc = "search",
                              !.run.tried = <<g.source>>]
    IN /\ IF Guarded(state.loading)
          THEN /\ state' = toggledState
               /\ guarded' = event
               /\ UNCHANGED <<currentSource, grid, statusEl, loadMoreBtn, runs, lastExit>>
          ELSE /\ Leave(Len(runs) + 1,
                        IF reset \/ Len(state.ids) = 0 THEN fetchIds ELSE PageLoop(g))
               /\ guarded' = guarded
       /\ UNCHANGED <<now, limVars, fetchVars, aggVars, searchVars, projVars, storeVars,
                      votingVars, collVars, surpVars>>

\* A click on the refresh button.
RefreshClick == LoadNextPage(TRUE, "refresh", state.drcOnly)

\* A click on the load-more button, when it is not disabled.
LoadMoreClick ==
    /\ ~loadMoreBtn
    /\ LoadNextPage(FALSE, "more", state.drcOnly)

\* The change listener of the filter checkbox.
DrcToggleChange == LoadNextPage(TRUE, "toggle", ~state.drcOnly)

\* fetchJson(currentSource.search) gets its response: a 2xx response with a
\* JSON body ("ok"), a rejected fetch or a non-2xx response ("failed"), a 2xx
\* response whose body is not JSON ("notJson": response.json() is returned
\* without await, so its rejection passes the catch of fetchJson).
GallerySearchRespond(r, outcome, body, order) ==
    /\ r \in 1..Len(runs)
    /\ runs[r].pc = "search"
    /\ LET g == Gallery(runs[r])
           items == OrEmpty(body)
           \* loadNextPage once fetchIds has returned the ids
           fetched(x, ids) ==
               LET cleared == [x EXCEPT !.state.ids = ids, !.state.idsFrom = x.source,
                                        !.state.cursor = 0, !.grid = <<>>]
               IN IF Len(ids) = 0
                  THEN [cleared EXCEPT !.disabled = TRUE, !.exit = "empty"]
                  ELSE PageLoop(cleared)
           \* the catch of fetchIds, and the catch of loadNextPage
           caught(cause) ==
               LET f == [g EXCEPT !.run.failed =
                                      Append(@, [source |-> g.source,
                                                 requests |-> g.run.attempt + 1,
                                                 cause |-> cause])]
               IN IF ShouldFallback(g.source)
                  THEN [f EXCEPT !.source = "met", !.status = "loading",
                                 !.run.pc = "search", !.run.attempt = 0,
                                 !.run.tried = Append(@, "met")]
                  ELSE [f EXCEPT !.status = "unable", !.exit = "error"]
       IN Leave(r, IF outcome = "ok"
                   THEN IF Len(items) = 0
                        THEN fetched([g EXCEPT !.status = "noneFound"], <<>>)
                        ELSE fetched(g, IF order = "kept" THEN items ELSE Reverse(items))
                   ELSE IF outcome = "notJson" THEN caught("notJson")
                   ELSE IF g.run.attempt < GALLERY_RETRIES
                   THEN [g EXCEPT !.run.pc = "wait",
                                  !.run.waits = Append(@, GALLERY_WAIT_STEP
                                                          * (g.run.attempt + 1))]
                   ELSE caught("failed"))
    /\ UNCHANGED <<now, limVars, fetchVars, aggVars, searchVars, projVars, storeVars,
                   votingVars, collVars, surpVars, guarded>>

\* The timer of wait(ms) fires: return fetchJson(url, attempt + 1)
GalleryWaitDone(r) ==
    /\ r \in 1..Len(runs)
    /\ runs[r].pc = "wait"
    /\ runs' = [runs EXCEPT ![r].pc = "search", ![r].attempt = @ + 1]
    /\ UNCHANGED <<now, limVars, fetchVars, aggVars, searchVars, projVars, storeVars,
                   votingVars, collVars, surpVars, currentSource, state, grid, statusEl,
                   loadMoreBtn, lastExit, guarded>>

\* Promise.allSettled(slice.map(fetchArtifact)) settles: the fulfilled
\* results that are truthy and pass the filter are the matches.
GalleryDetailsSettle(r, results) ==
    /\ r \in 1..Len(runs)
    /\ runs[r].pc = "details"
    /\ LET g == Gallery(runs[r])
           fulfilled == SelectSeq(results, LAMBDA s : s.status = "fulfilled")
           filtered == SelectSeq(fulfilled, LAMBDA s : s.value.truthy
                                                       /\ MatchesFilter(s.value, state.drcOnly))
           matches == [k \in 1..Len(filtered) |->
                          [artifact |-> filtered[k].value, under |-> state.drcOnly]]
       IN Leave(r, PageLoop([g EXCEPT !.run.pc = "loop", !.run.artifacts = @ \o matches]))
    /\ UNCHANGED <<now, limVars, fetchVars, aggVars, searchVars, projVars, storeVars,
                   votingVars, collVars, surpVars, guarded>>

\* The events of the page.  An object is with an image and from the Congo,
\* from elsewhere or of no known place, or from the Congo without an image.
\* A search returns a body without the field, or a list of no object, of
\* one, or of one and then others alike.  The object requests of a slice
\* settle as rejected, or fulfilled with null or with an object; the ids of
\* a slice are object IDs of the Met, or objects of Cleveland left from
\* before the fallback: for those the Met has no object.
NextGallery ==
    LET artifacts ==
            {[truthy |-> TRUE, image |-> TRUE, luba |-> TRUE, drc |-> TRUE, geo |-> TRUE],
             [truthy |-> TRUE, image |-> TRUE, luba |-> TRUE, drc |-> FALSE, geo |-> TRUE],
             [truthy |-> TRUE, image |-> TRUE, luba |-> TRUE, drc |-> FALSE, geo |-> FALSE],
             [truthy |-> TRUE, image |-> FALSE, luba |-> TRUE, drc |-> TRUE, geo |-> TRUE]}
        others == {a \in artifacts : a.geo}
        counts == {0, 1, MaxGalleryItems}
        bodies == {NoField}
                  \cup (IF currentSource = "cleveland"
                        THEN {Body([k \in 1..n |-> IF k = 1 THEN a ELSE b]) :
                                 n \in counts, a \in artifacts, b \in others}
                        ELSE {Body([j \in 1..n |-> MetId(j)]) : n \in counts})
        null == [truthy |-> FALSE, image |-> FALSE, luba |-> FALSE, drc |-> FALSE,
                 geo |-> FALSE]
        rejected == [status |-> "rejected", value |-> null]
        fulfilled(value) == [status |-> "fulfilled", value |-> value]
        first == {rejected, fulfilled(null)} \cup {fulfilled(a) : a \in artifacts}
        rest == {rejected} \cup {fulfilled(a) : a \in others}
        settled(slice) ==
            IF state.idsFrom = "met"
            THEN {[k \in 1..Len(slice) |-> IF k = 1 THEN a ELSE b] :
                     a \in first, b \in rest}
            ELSE {[k \in 1..Len(slice) |-> rejected]}
    IN \/ RefreshClick
       \/ LoadMoreClick
       \/ DrcToggleChange
       \/ \E r \in 1..Len(runs), o \in {"ok", "failed", "notJson"}, body \in bodies,
             order \in Orders : GallerySearchRespond(r, o, body, order)
       \/ \E r \in 1..Len(runs) : GalleryWaitDone(r)
       \/ \E r \in 1..Len(runs) :
             \E results \in settled(runs[r].slice) : GalleryDetailsSettle(r, results)

(***************************************************************************)
(* The Surprise Me button: the listeners initializeApp puts on it, and the *)
(* surpriseMe invocations a click starts.                                  *)
(***************************************************************************)
\* initializeApp(), as far as the button goes: initializeEventListeners()
\* and then initializeSurpriseMe() each add a click listener when the page
\* has the button.
InitializeApp(buttonPresent) ==
    /\ listeners = <<>>
    /\ listeners' = IF buttonPresent
                    THEN <<"initializeEventListeners", "initializeSurpriseMe">>
                    ELSE <<>>
    /\ UNCHANGED <<now, limVars, fetchVars, aggVars, searchVars, projVars, storeVars,
                   votingVars, collVars, galVars, clicks, surprises, shown>>

\* A click on the button: every listener runs, in the order they were added,
\* and calls surpriseMe, which runs up to the await of searchAllSources.
SurpriseClick(type) ==
    /\ Len(listeners) > 0
    /\ clicks < MaxClicks
    /\ clicks' = clicks + 1
    /\ surprises' = surprises \o [k \in 1..Len(listeners) |->
                                     [click |-> clicks + 1, listener |-> listeners[k],
                                      type |-> type, pc |-> "searching",
                                      status |-> "finding", returned |-> 0]]
    /\ UNCHANGED <<now, limVars, fetchVars, aggVars, searchVars, projVars, storeVars,
                   votingVars, collVars, galVars, listeners, shown>>

\* surpriseMe(criteria) once searchAllSources has settled: the results are
\* empty ("none"), or one item is picked, added to the history and shown
\* ("shown"), or showArtifactModal throws on it ("modalThrows").  An object
\* of the Met has no id: selectedItem.id || selectedItem.objectID.
SurpriseSettle(k, item, end) ==
    /\ k \in 1..Len(surprises)
    /\ surprises[k].pc = "searching"
    /\ end = "modalThrows" => surprises[k].type = "artifact"
    /\ LET type == IF surprises[k].type = "artifact" THEN "artifacts" ELSE "recordings"
           id == IF item.id # 0 THEN item.id ELSE item.objectID
           viewed == [id |-> id, name |-> "undefined", title |-> "Stool",
                      thumbnail |-> "undefined",
                      image |-> IF id % 2 = 0 THEN "web.jpg" ELSE "undefined"]
       IN /\ localStorage' =
                 IF end = "none" THEN localStorage
                 ELSE SaveToStorage(localStorage, "luba_interaction_history",
                                    AddToHistoryRun(localStorage, today, type, viewed,
                                                    HISTORY_MAX_ITEMS))
          /\ lastHist' = IF end = "none" THEN lastHist
                         ELSE [called |-> TRUE, type |-> type, id |-> id]
          /\ surprises' = [surprises EXCEPT
                              ![k].pc = "done",
                              ![k].status = IF end = "none" THEN "noSurprises"
                                            ELSE IF end = "shown" THEN "discovered"
                                            ELSE "unable",
                              ![k].returned = IF end = "shown" THEN id ELSE 0]
    /\ shown' = IF end = "none" THEN shown
                ELSE Append(shown, [run |-> k,
                                    what |-> IF end = "modalThrows" THEN "toast"
                                             ELSE IF surprises[k].type = "artifact"
                                             THEN "artifactModal" ELSE "musicDetails"])
    /\ UNCHANGED <<now, limVars, fetchVars, aggVars, searchVars, projVars, votingVars,
                   today, dataTheme, docLang, lastCast, wonKeys, lastSelected,
                   toggledSinceLoad, lastFav, galVars, listeners, clicks>>

NextSurprise ==
    \/ \E b \in BOOLEAN : InitializeApp(b)
    \/ \E t \in {"artifact", "music"} : SurpriseClick(t)
    \/ \E k \in 1..Len(surprises), item \in {[id |-> 1, objectID |-> 0],
                                             [id |-> 0, objectID |-> 2]},
          end \in {"none", "shown", "modalThrows"} : SurpriseSettle(k, item, end)

InitLimiter ==
    /\ lastMusicBrainzRequest = 0
    /\ rl = [c \in MBCallers |-> RlIdle]
    /\ admitLog = <<>>

InitFetch == fw = FwIdle

Init ==
    /\ now = LoadTime
    /\ InitLimiter
    /\ InitFetch
    /\ InitAgg
    /\ InitSearch
    /\ InitProject
    /\ InitStorage
    /\ InitVoting
    \* nothing stored, nothing clicked, and the loadNextPage({ reset: true })
    \* of gallery.js awaits its search
    /\ lastFav = [op |-> "none", type |-> "none", id |-> [type |-> "number", v |-> 0],
                  returned |-> FALSE, before |-> Absent]
    /\ lastHist = [called |-> FALSE, type |-> "none", id |-> 0]
    /\ currentSource = "cleveland"
    /\ state = [ids |-> <<>>, idsFrom |-> "cleveland", cursor |-> 0, loading |-> TRUE,
                drcOnly |-> FALSE]
    /\ grid = <<>>
    /\ statusEl = "loading"
    /\ loadMoreBtn = FALSE
    /\ runs = <<[pc |-> "search", reset |-> TRUE, attempt |-> 0, waits |-> <<>>,
                 tried |-> <<"cleveland">>, failed |-> <<>>, slice |-> <<>>,
                 artifacts |-> <<>>]>>
    /\ lastExit = [kind |-> "none", failed |-> <<>>, requests |-> 0, cause |-> "none",
                   status |-> "none"]
    /\ guarded = "none"
    /\ listeners = <<>>
    /\ clicks = 0
    /\ surprises = <<>>
    /\ shown = <<>>

NextLimiter ==
    \/ Tick
    \/ \E c \in MBCallers : RateLimitEnter(c)
    \/ MusicBranchEnter
    \/ \E c \in MBCallers : RateLimitWake(c)

SpecLimiter == Init /\ [][NextLimiter]_vars

\* The page: the adapters of api-module.js and the functions of project.js
\* ask MusicBrainz from the same document.
ApiCallers == {"artists", "details"}

NextPage ==
    \/ Tick
    \/ \E c \in ApiCallers : RateLimitEnter(c)
    \/ \E c \in ApiCallers : RateLimitWake(c)
    \/ \E p \in ProjectCallers : WaitForRateLimitEnter(p)
    \/ \E p \in ProjectCallers : WaitForRateLimitWake(p)

SpecPage == Init /\ [][NextPage]_vars

NextVoting ==
    \/ \E g \in BOOLEAN : InitializeVoting(g)
    \/ \E seq \in AttemptSeqs, body \in ClevelandBodies, o \in Orders :
          VotingClevelandRespond(seq, body, o)
    \/ \E seq \in AttemptSeqs, body \in MetBodies, o \in Orders :
          VotingMetSearchRespond(seq, body, o)
    \/ \E kinds \in AllKindChoices(vt.asked) : VotingDetailsSettle(kinds)
    \/ \E i \in Items : HandleVoteClick(i, "Stool")

SpecVoting == Init /\ [][NextVoting]_vars

NextStorage ==
    \/ DayPasses
    \/ \E i \in Items, d \in ItemDatas : CastVote(i, d)
    \/ \E i \in Items : HandleVoteClick(i, "Stool")
    \/ HandleThemeToggle
    \/ InitializeStorage

SpecStorage == Init /\ [][NextStorage]_vars

SpecFavorites == Init /\ [][NextFavorites]_vars

SpecHistory == Init /\ [][NextHistory]_vars

SpecGallery == Init /\ [][NextGallery]_vars

SpecSurprise == Init /\ [][NextSurprise]_vars

NextFetch ==
    \/ Tick
    \/ \E r \in RetriesArgs : FetchCall(r)
    \/ \E o \in AttemptOutcomes : FetchRespond(o)
    \/ FetchBackoffDone

SpecFetch == Init /\ [][NextFetch]_vars

NextAgg ==
    \/ TimerTick
    \/ \E a \in BOOLEAN, m \in BOOLEAN, r \in MaxResultsArgs : SearchAllSources(a, m, r)
    \/ \E seq \in AttemptSeqs, body \in MetBodies : MetSearchRespond(seq, body)
    \/ \E seq \in AttemptSeqs, body \in ClevelandBodies : ClevelandRespond(seq, body)
    \/ \E kinds \in KindChoices(ag.det.asked) : DetailsSettle(kinds)
    \/ \E c \in MusicAdapters : RateLimitWake(c)
    \/ \E c \in MusicAdapters, seq \in AttemptSeqs :
          \E body \in MusicBodies(c) : MusicRespond(c, seq, body)

SpecAgg == Init /\ [][NextAgg]_vars

NextSearch ==
    \/ Tick
    \/ \E v \in RawTexts : InputEvent(v)
    \/ DebounceFire
    \/ \E id \in 1..MaxEvents, c \in Completions : SearchComplete(id, c)
    \/ ClearSearch
    \/ ClearClick

SpecSearch == Init /\ [][NextSearch]_vars

(***************************************************************************)
(* Progress.  One of the three layers is followed at a time: a call of     *)
(* fetchWithRetry, an invocation of searchAllSources, or the search bar.   *)
(* Every HTTP attempt ends, every timer that is due fires, and a promise   *)
(* that can settle does settle.                                            *)
(***************************************************************************)
FetchQuiet == fw.pc = "idle"
AggQuiet == ag.pc = "idle" /\ \A c \in MBCallers : rl[c].pc = "idle"
SearchQuiet == events = <<>>

FetchSteps ==
    \/ \E r \in RetriesArgs : FetchCall(r)
    \/ \E o \in AttemptOutcomes : FetchRespond(o)
    \/ FetchBackoffDone

\* Of the bodies a source may answer with, those of one item at most.
Short(bodies) == {b \in bodies : Len(b.items) <= 1}

\* performSearch passes maxResults: 50.
AggSteps ==
    \/ \E a \in BOOLEAN, m \in BOOLEAN : SearchAllSources(a, m, DEFAULT_MAX_RESULTS)
    \/ \E seq \in AttemptSeqs, body \in Short(MetBodies) : MetSearchRespond(seq, body)
    \/ \E seq \in AttemptSeqs, body \in Short(ClevelandBodies) :
          ClevelandRespond(seq, body)
    \/ \E kinds \in KindChoices(ag.det.asked) : DetailsSettle(kinds)
    \/ \E c \in MusicAdapters : RateLimitWake(c)
    \/ \E c \in MusicAdapters, seq \in AttemptSeqs :
          \E body \in Short(MusicBodies(c)) : MusicRespond(c, seq, body)

SearchSteps ==
    \/ Len(events) < MaxEvents - 1 /\ \E v \in RawTexts : InputEvent(v)
    \/ DebounceFire
    \/ \E id \in 1..MaxEvents, c \in Completions : SearchComplete(id, c)
    \/ ClearSearch
    \/ ClearClick

NextLive ==
    \/ TimerTick
    \/ AggQuiet /\ SearchQuiet /\ FetchSteps
    \/ FetchQuiet /\ SearchQuiet /\ AggSteps
    \/ FetchQuiet /\ AggQuiet /\ SearchSteps

Fairness ==
    /\ WF_vars(TimerTick)
    /\ WF_vars(\E o \in AttemptOutcomes : FetchRespond(o))
    /\ WF_vars(FetchBackoffDone)
    /\ WF_vars(\E seq \in AttemptSeqs, body \in MetBodies : MetSearchRespond(seq, body))
    /\ WF_vars(\E seq \in AttemptSeqs, body \in ClevelandBodies : ClevelandRespond(seq, body))
    /\ WF_vars(\E kinds \in KindChoices(ag.det.asked) : DetailsSettle(kinds))
    /\ \A c \in MusicAdapters :
          /\ WF_vars(RateLimitWake(c))
          /\ WF_vars(\E seq \in AttemptSeqs : \E body \in MusicBodies(c) :
                         MusicRespond(c, seq, body))
    /\ WF_vars(DebounceFire)
    /\ \A id \in 1..MaxEvents : WF_vars(\E c \in Completions : SearchComplete(id, c))

SpecLive == Init /\ [][NextLive]_vars /\ Fairness

(***************************************************************************)
(* Properties                                                              *)
(***************************************************************************)

\* C2: any two admissions by rateLimitMusicBrainz are at least
\* MUSICBRAINZ_RATE_LIMIT ms apart, whatever the number of callers, the three
\* adapters started together by searchAllSources included.
C2_AdmissionsApart ==
    \A j \in 1..Len(admitLog) : \A k \in 1..Len(admitLog) :
        j < k => admitLog[k] - admitLog[j] >= MUSICBRAINZ_RATE_LIMIT

\* C10: an invocation made e ms after the previous admission is suspended for
\* exactly 1000 - e ms when e < 1000, and is not suspended when e >= 1000.
C10_DelayIsRemainder ==
    \A c \in MBCallers :
        (rl[c].pc # "idle" /\ rl[c].prevAdmit # NoAdmission) =>
            LET e == rl[c].invokedAt - rl[c].prevAdmit
            IN IF e < 1000
               THEN /\ rl[c].delay = 1000 - e
                    /\ rl[c].pc = "admitted" => rl[c].admittedAt = rl[c].invokedAt + (1000 - e)
                    /\ rl[c].pc = "waiting" => now <= rl[c].invokedAt + (1000 - e)
               ELSE /\ rl[c].delay = 0
                    /\ rl[c].pc = "admitted"
                    /\ rl[c].admittedAt = rl[c].invokedAt

C10_Witness ==
    /\ \E c \in MBCallers :
        /\ rl[c].pc = "admitted" /\ rl[c].prevAdmit # NoAdmission
        /\ rl[c].invokedAt - rl[c].prevAdmit \in 1..999
        /\ rl[c].admittedAt > rl[c].invokedAt
    /\ \E c \in MBCallers :
        /\ rl[c].pc = "admitted" /\ rl[c].prevAdmit # NoAdmission
        /\ rl[c].invokedAt - rl[c].prevAdmit >= 1000

Failed(a) == a.outcome \in AttemptOutcomes \ {"ok"}

\* C7: with retries = 3, two failed attempts and a successful third, the call
\* resolves with the third response's payload after waits of 400 ms and
\* 800 ms; in general the wait after failed attempt i (from 0) is 400*(i+1).
C7_RetrySchedule ==
    /\ (/\ fw.pc = "resolved" /\ fw.retries = DEFAULT_RETRIES /\ Len(fw.log) = 3
        /\ Failed(fw.log[1]) /\ Failed(fw.log[2]) /\ fw.log[3].outcome = "ok")
       => /\ fw.result = Payload(3)
          /\ fw.waits = <<400, 800>>
          /\ fw.log[2].start - fw.log[1].end = 400
          /\ fw.log[3].start - fw.log[2].end = 800
    /\ \A k \in 1..Len(fw.waits) :
          /\ fw.waits[k] = 400 * k
          /\ Failed(fw.log[k])
          /\ k < Len(fw.log) => fw.log[k + 1].start - fw.log[k].end = 400 * k

C7_Witness ==
    /\ fw.pc = "resolved" /\ fw.retries = DEFAULT_RETRIES /\ Len(fw.log) = 3
    /\ fw.log[1].outcome = "status" /\ fw.log[2].outcome = "network"
    /\ fw.log[3].outcome = "ok"

\* C8: for retries >= 1 there are at most retries attempts, none after a
\* successful one; when all of them fail the call rejects with the error of
\* the last attempt, at once.
C8_AttemptBound ==
    fw.retries >= 1 =>
        /\ Len(fw.log) <= fw.retries
        /\ \A k \in 1..(Len(fw.log) - 1) : Failed(fw.log[k])
        /\ fw.pc = "resolved" =>
              /\ Last(fw.log).outcome = "ok"
              /\ fw.result = Payload(Len(fw.log))
        /\ fw.pc = "rejected" =>
              /\ Len(fw.log) = fw.retries
              /\ \A k \in 1..Len(fw.log) : Failed(fw.log[k])
              /\ fw.result = ErrorOf(Last(fw.log).outcome, fw.retries)
              /\ Len(fw.waits) = fw.retries - 1
              /\ fw.settledAt = Last(fw.log).end
        /\ fw.pc = "backoff" => Len(fw.log) < fw.retries

C8_Witness ==
    /\ fw.pc = "rejected" /\ fw.retries = DEFAULT_RETRIES
    /\ Len(fw.log) = 3 /\ fw.result = ErrorOf("network", 3)

ArtFailed == ag.includeArt /\ (ag.met.st = "failed" \/ ag.cle.st = "failed")
MusicFailed == ag.includeMusic /\ \E c \in MusicAdapters : ag.mb[c].st = "failed"

\* C3: when the Met ID search fails after its retries and the Cleveland
\* search succeeds with n items, searchAllSources returns without throwing
\* and artifacts holds those n items, cut to maxResults.
C3_ClevelandSurvivesMetFailure ==
    (ag.pc = "done" /\ ag.includeArt /\ ag.met.st = "failed" /\ ag.cle.st = "ok") =>
        /\ ag.outcome = "returned"
        /\ ag.results.artifacts = SubSeq(ag.cle.data, 1, Min(ag.maxResults, Len(ag.cle.data)))

C9_ExpectedMet ==
    LET n == IF Len(ag.met.ids) < 10 THEN Len(ag.met.ids) ELSE 10
        withImage == SelectSeq([j \in 1..n |-> j], LAMBDA j : ag.det.kinds[j] = "img")
    IN [k \in 1..Len(withImage) |-> <<"met", ag.met.ids[withImage[k]]>>]

C9_AllFetchesSucceeded ==
    /\ ag.pc = "done" /\ ag.includeArt /\ ~ag.includeMusic
    /\ ag.met.st = "ok" /\ ag.cle.st = "ok"
    /\ \A j \in 1..Len(ag.det.kinds) : ag.det.kinds[j] # "failed"

\* C9: an art-only search whose fetches all succeed returns as artifacts the
\* first maxResults of the Cleveland results followed by the Met objects with
\* an image among the first 10 IDs; the other categories are empty and no
\* MusicBrainz request is made.
C9_ArtOnlyResult ==
    C9_AllFetchesSucceeded =>
        LET all == ag.cle.data \o C9_ExpectedMet
            art == ag.results.artifacts
        IN /\ art = SubSeq(all, 1, Min(ag.maxResults, Len(all)))
           /\ Len(art) <= ag.maxResults
           /\ \A j \in 1..Len(art) : \A k \in 1..Len(art) :
                 (art[j][1] = "cleveland" /\ art[k][1] = "met") => j < k
           /\ ag.results.recordings = <<>>
           /\ ag.results.artists = <<>>
           /\ ag.results.instruments = <<>>
           /\ admitLog = <<>>
           /\ \A c \in MusicAdapters : ag.mb[c].st = "none" /\ rl[c].pc = "idle"

\* Cleveland items and more than 10 Met IDs, cut by maxResults.
C9_Witness ==
    /\ C9_AllFetchesSucceeded
    /\ Len(ag.met.ids) > 10 /\ Len(ag.cle.data) = 2 /\ ag.maxResults = 5
    /\ Len(ag.results.artifacts) = 5
    /\ \E j \in 1..Len(ag.det.kinds) : ag.det.kinds[j] = "noimg"

\* C1: when a search completes after a later search has made another query
\* the current one, its completion writes neither the results container nor
\* the status element.
C1_StaleDiscarded ==
    [][\A id \in 1..Len(searches) :
          (/\ searches[id].st = "inflight"
           /\ searches'[id].st # "inflight"
           /\ currentSearchQuery # searches[id].query)
          => (container' = container /\ statusElement' = statusElement)]_vars

\* A was in flight when B became current; A has completed and B's loading
\* state is still shown.
C1_Witness ==
    \E a \in 1..Len(searches) : \E b \in 1..Len(searches) :
        /\ a < b
        /\ searches[a].st = "discarded"
        /\ searches[b].st = "inflight"
        /\ searches[b].query # searches[a].query
        /\ currentSearchQuery = searches[b].query
        /\ container = [kind |-> "skeleton", by |-> b]
        /\ statusElement = [kind |-> "searching", by |-> b]

\* C5: an input event followed by another within the quiet period never
\* leads to a performSearch call; each event leads to at most one call, made
\* with the query of that event.
C5_OnlyLastReachesAggregator ==
    /\ \A k \in 1..Len(events) :
          events[k].superseded =>
              /\ \A i \in 1..Len(searches) : searches[i].ev # k
              /\ \A t \in timers : t.id # k
    /\ \A i \in 1..Len(searches) :
          /\ searches[i].ev \in 1..Len(events)
          /\ searches[i].query = events[searches[i].ev].q
          /\ \A j \in 1..Len(searches) : searches[j].ev = searches[i].ev => j = i

\* Three events in a burst; the last one's query is with the aggregator.
C5_Witness ==
    /\ Len(events) = 3
    /\ events[1].superseded /\ events[2].superseded
    /\ events[1].q # events[3].q /\ events[2].q # events[3].q
    /\ Len(searches) = 1
    /\ searches[1].ev = 3 /\ searches[1].st = "inflight"

\* C6: handling a query whose trimmed length is below 2 calls neither
\* searchAllSources nor any source and empties the results container.
C6_ShortQueryNoCall ==
    [][(/\ Len(searches') = Len(searches) + 1
        /\ Len(Trim(searches'[Len(searches')].query)) < 2)
       => /\ searches'[Len(searches')].st = "short"
          /\ \A i \in 1..Len(searches) : searches'[i] = searches[i]
          /\ container'.kind = "empty"
          /\ UNCHANGED <<currentSearchQuery, limVars, fetchVars, aggVars>>]_vars

\* A short query handled while results were shown.
C6_Witness ==
    \E i \in 1..Len(searches) : \E j \in 1..Len(searches) :
        /\ j < i
        /\ searches[j].st = "rendered"
        /\ searches[i].st = "short"
        /\ container = [kind |-> "empty", by |-> i]

\* C11: the adapters of api-module.js and fetchMusicBrainz of project.js are
\* gated by one last-call timestamp: a request made on one path less than
\* 1000 ms after an admission on the other path is admitted no sooner than
\* 1000 ms after that admission.
C11_OneSharedClock ==
    \A c \in ApiCallers : \A p \in ProjectCallers :
        /\ (/\ rl[c].pc = "admitted" /\ wl[p].pc = "admitted"
            /\ rl[c].admittedAt <= wl[p].invokedAt
            /\ wl[p].invokedAt - rl[c].admittedAt < 1000)
           => wl[p].admittedAt - rl[c].admittedAt >= 1000
        /\ (/\ rl[c].pc = "admitted" /\ wl[p].pc = "admitted"
            /\ wl[p].admittedAt <= rl[c].invokedAt
            /\ rl[c].invokedAt - wl[p].admittedAt < 1000)
           => rl[c].admittedAt - wl[p].admittedAt >= 1000

C14_ThemePersists ==
    (lastSelected # "none" /\ ~toggledSinceLoad) => dataTheme = lastSelected

\* C13: when the Cleveland search of initializeVoting rejects after its
\* retries, the Met Museum is asked instead (ID search, then object fetch)
\* and the voting cards are rendered from the Met results.
C13_MetFallback ==
    (vt.pc = "done" /\ vt.cle = "failed") =>
        /\ vt.met # "none"
        /\ (vt.met = "ok" /\ vt.ids # <<>>) => vt.source = "met"

\* C15: the completion of a search whose query is no longer the current one
\* leaves the stored searchResults, which getSearchResults returns, as they
\* were.
C15_StaleLeavesStored ==
    [][\A id \in 1..Len(searches) :
          (/\ searches[id].st = "inflight"
           /\ searches'[id].st # "inflight"
           /\ currentSearchQuery # searches[id].query)
          => searchResults' = searchResults]_vars

\* C16: between the read of lastMusicBrainzRequest by an invocation of
\* rateLimitMusicBrainz and the write to it by the same invocation, no other
\* invocation reads or writes it.
C16_ReadThenWriteAtomic ==
    [][\A c \in MBCallers :
          (rl[c].pc = "waiting" /\ rl'[c].pc = "waiting")
          => /\ \A d \in MBCallers \ {c} : rl'[d] = rl[d]
             /\ lastMusicBrainzRequest' = lastMusicBrainzRequest]_vars

C18_ArmingCancels ==
    Len(events') = Len(events) + 1 =>
        /\ Cardinality(timers') = 1
        /\ \A t \in timers' : t.id = Len(events') /\ t.id = debounceTimer'
        /\ \A t \in timers : t.id < Len(events')

\* performSearch is called by the one timer that is pending.
C18_OnlyPendingFires ==
    Len(searches') = Len(searches) + 1 =>
        /\ \E t \in timers : timers = {t} /\ t.id = searches'[Len(searches')].ev
        /\ searches'[Len(searches')].ev = debounceTimer
        /\ timers' = {}

\* C18: at most one debounce timer is pending, the one debounceTimer names;
\* arming a timer cancels the pending one and clearSearch cancels it too, and
\* a cancelled timer never calls performSearch.
C18_SingleTimer ==
    /\ [](/\ Cardinality(timers) <= 1
          /\ \A t \in timers : t.id = debounceTimer /\ t.id = Len(events))
    /\ [][C18_ArmingCancels /\ C18_OnlyPendingFires]_vars
    /\ [][ClearSearch => timers' = {}]_vars

\* Three timers armed: the first cancelled by the second, the second by
\* clearSearch or by the third, and the third has called performSearch.
C18_Witness ==
    /\ Len(events) = 3 /\ events[1].superseded /\ ~events[2].superseded
    /\ Len(searches) = 1 /\ searches[1].ev = 3
    /\ currentSearchQuery = searches[1].query
    /\ timers = {}

\* The firing of a debounce timer is a call of performSearch; with a query
\* of at least the minimum length the call goes on to searchAllSources.
C19_FiringStartsSearch ==
    \A t \in timers :
        (t \notin timers' /\ Len(searches') = Len(searches) + 1) =>
            /\ searches'[Len(searches')].query = t.query
            /\ searches'[Len(searches')].st =
                  IF Len(Trim(t.query)) >= MIN_LENGTH THEN "inflight" ELSE "short"

\* C19: when every HTTP attempt ends and every due timer fires, a call of
\* fetchWithRetry settles after at most retries attempts, an invocation of
\* searchAllSources returns, a pending debounce timer fires or is cancelled,
\* and every performSearch that is in flight finishes: its results are
\* rendered, or discarded as stale, or the failure is shown.
C19_SearchCompletes ==
    /\ [][C19_FiringStartsSearch]_vars
    /\ (timers # {}) ~> (timers = {})
    /\ \A id \in 1..MaxEvents :
          (Len(searches) >= id /\ searches[id].st = "inflight")
              ~> (Len(searches) >= id
                  /\ searches[id].st \in {"rendered", "discarded", "failed"})
    /\ (ag.pc \in {"artSearch", "metObjects", "music"})
          ~> (ag.pc = "done" /\ ag.outcome = "returned")
    /\ (fw.pc \in {"fetching", "backoff"})
          ~> (fw.pc \in {"resolved", "rejected"} /\ Len(fw.log) <= fw.retries)

\* Idle again after two searches were in flight together: the first was
\* discarded as stale, the second one shown.
C19_Witness ==
    /\ Len(searches) >= 2 /\ timers = {}
    /\ searches[1].st = "discarded"
    /\ searches[2].st \in {"rendered", "failed"}
    /\ \A i \in 1..Len(searches) : searches[i].st # "inflight"

\* C20: whatever the IDs and however the detail fetches end, getMetObjects
\* does not reject and returns exactly the objects whose fetch succeeded and
\* that have a primaryImage, in the order of the IDs it was given.
C20_ExactlyWithImage ==
    (vt.pc = "done" /\ vt.met = "ok" /\ vt.ids # <<>>) =>
        LET withImage == {j \in 1..Len(vt.asked) : vt.kinds[j] = "img"}
        IN /\ vt.outcome = "rendered" /\ vt.source = "met"
           /\ Len(vt.kinds) = Len(vt.asked)
           /\ Len(vt.cards) = Cardinality(withImage)
           /\ \A k \in 1..Len(vt.cards) :
                 \E j \in withImage :
                     /\ vt.cards[k] = vt.asked[j]
                     /\ Cardinality({i \in withImage : i < j}) = k - 1

\* Five IDs in an order that is not the ascending one; two fetches failed,
\* one object has no image, two objects are returned.
C20_Witness ==
    /\ vt.pc = "done" /\ vt.source = "met" /\ Len(vt.asked) = 5
    /\ vt.asked[1] > vt.asked[2]
    /\ vt.kinds = <<"failed", "img", "noimg", "img", "failed">>
    /\ vt.cards = <<vt.asked[2], vt.asked[4]>>

\* C22: once a call of performSearch with a too-short query has emptied the
\* results container, no search started before that call writes the
\* container or the status element.
C22_ClearedStaysCleared ==
    \A j \in 1..Len(searches) :
        searches[j].st = "short" =>
            \A id \in 1..(j - 1) : container.by # id /\ statusElement.by # id

\* C23: results are rendered only on completion of the performSearch
\* invocation that was started last with a query of the minimum length, also
\* when an earlier invocation had the same query text.
C23_OnlyLatestRenders ==
    [][\A id \in 1..Len(searches) :
          (searches[id].st = "inflight" /\ searches'[id].st \in {"rendered", "failed"})
          => \A k \in (id + 1)..Len(searches) : searches[k].st = "short"]_vars

\* C24: for every value of retries, fetchWithRetry resolves only with the
\* JSON payload of a successful response.
C24_ResolvesOnlyWithPayload ==
    fw.pc = "resolved" =>
        /\ Len(fw.log) >= 1
        /\ fw.log[Len(fw.log)].outcome = "ok"
        /\ fw.result = Payload(Len(fw.log))

\* getStorageStats().hasVotedThisWeek
HasVotedThisWeek(ls, date) == Cardinality(GetVotes(ls, date).votes) > 0

\* C25: in every state of the stored votes, hasVotedThisWeek of
\* getStorageStats is true exactly when getMyVote returns a vote and exactly
\* when castVote would be refused.
C25_VoteStatusConsistent ==
    /\ HasVotedThisWeek(localStorage, today) <=> GetMyVote(localStorage, today) # {}
    /\ \A i \in Items, d \in ItemDatas :
          HasVotedThisWeek(localStorage, today)
              <=> CastVoteRun(localStorage, today, i, d).result = AlreadyVotedThisWeek

(***************************************************************************)
(* The gallery.                                                            *)
(***************************************************************************)
\* The sources whose search has failed in an invocation.
FailedSources(failed) == {failed[k].source : k \in 1..Len(failed)}

\* C21: when the Cleveland search fails, after its retries, fetchIds makes
\* the Met the current source and searches it once; when the Met search fails
\* too, loadNextPage ends with the load-error status.  An invocation searches
\* at most two sources, each once, and the source that has become the Met
\* stays the Met.
C21_SourceFallback ==
    /\ [](/\ \A r \in 1..Len(runs) :
                /\ Len(runs[r].tried) <= 2
                /\ \A i \in 1..Len(runs[r].tried), j \in 1..Len(runs[r].tried) :
                       i # j => runs[r].tried[i] # runs[r].tried[j]
                /\ runs[r].pc \in {"search", "wait"} => Last(runs[r].tried) = currentSource
                /\ "cleveland" \in FailedSources(runs[r].failed) =>
                       /\ currentSource = "met"
                       /\ runs[r].tried = <<"cleveland", "met">>
                /\ "met" \notin FailedSources(runs[r].failed)
                /\ \A k \in 1..Len(runs[r].failed) :
                       runs[r].failed[k].cause = "failed" =>
                           runs[r].failed[k].requests = GALLERY_RETRIES + 1
          /\ lastExit.kind = "error" <=> lastExit.failed = <<"cleveland", "met">>
                                          \/ lastExit.failed = <<"met">>
          /\ lastExit.cause = "failed" => lastExit.requests = GALLERY_RETRIES + 1
          /\ lastExit.kind = "error" => lastExit.status = "unable"
          /\ lastExit.kind = "error" /\ runs = <<>> => statusEl = "unable")
    /\ [][currentSource = "met" => currentSource' = "met"]_vars

\* Both searches have failed, the second after three requests, and the page
\* shows the load error.
C21_Witness ==
    /\ runs = <<>>
    /\ lastExit.kind = "error"
    /\ lastExit.failed = <<"cleveland", "met">>
    /\ lastExit.cause = "failed"
    /\ lastExit.requests = 3
    /\ currentSource = "met"
    /\ statusEl = "unable"

\* C26: once no load is in progress and the last one has not failed, every
\* card of the grid was selected with the filter value that is in force.
C26_CardsMatchFilter ==
    (runs = <<>> /\ lastExit.kind # "error") =>
        \A k \in 1..Len(grid) : grid[k].under = state.drcOnly

\* C27: at most one loadNextPage invocation is past its guard, state.loading
\* is true exactly while one is, and it is false again after every exit.
C27_LoadMutualExclusion ==
    /\ Len(runs) <= 1
    /\ state.loading <=> Len(runs) = 1
    /\ \A r \in 1..Len(runs) : runs[r].pc \in {"search", "wait", "details"}
    /\ lastExit.kind \in {"none", "empty", "nomatch", "nomore", "rendered", "error"}

\* A load has ended in an error while a click was turned away at the guard,
\* and the gallery is free again.
C27_Witness ==
    /\ lastExit.kind = "error"
    /\ guarded = "more"
    /\ runs = <<>>
    /\ ~state.loading

(***************************************************************************)
(* The Surprise Me button.                                                 *)
(***************************************************************************)
\* The invocations a click has started.
StartedBy(click) == {k \in 1..Len(surprises) : surprises[k].click = click}

\* C28: a click on the Surprise Me button starts exactly one surpriseMe
\* invocation, which adds at most one history entry and shows one modal or
\* toast at most.
C28_OneRunPerClick ==
    /\ \A c \in 1..clicks : Cardinality(StartedBy(c)) = 1
    /\ Len(shown) <= clicks

(***************************************************************************)
(* Favorites and history.                                                  *)
(***************************************************************************)
\* No two entries of a list have the same id.
NoDuplicateIds(list) ==
    \A i \in 1..Len(list), j \in 1..Len(list) : i # j => list[i].id # list[j].id

\* The list has an entry of the id.
HasId(list, id) == \E k \in 1..Len(list) : list[k].id = id

\* The list of a type, empty when the object has none.
TypeList(object, type) == IF type \in DOMAIN object THEN object[type] ELSE <<>>

\* The favorites before the last call.
FavoritesBefore ==
    GetFavorites([localStorage EXCEPT !["luba_my_heritage"] = lastFav.before])

=============================================================================
